---- MODULE Spec2Model ----
(***************************************************************************)
(* Model of src/api/generate-assessment.js: the POST                       *)
(* /api/generate-assessment handler, the generateAssessment helper it      *)
(* calls, and the subscriber store it reads and upserts.                    *)
(*                                                                         *)
(* Text is a sequence of one-character strings.  The JSON alphabet is       *)
(* reduced to lexemes: "{" "}" "[" "]" "," are themselves, "a" stands for   *)
(* the member key "assessmentSections": , "e" for one section object,      *)
(* "1" for a number, " " for whitespace, "p" for a character of prose.      *)
(* "#" stands for the backtick, so the fence is "###"; the fence and the    *)
(* word "json" are spelled character by character.                         *)
(* Time is counted in hours; the rate limiter reads the clock in half       *)
(* hours.                                                                  *)
(***************************************************************************)
EXTENDS Integers, Sequences, FiniteSets, TLC

(***************************************************************************)
(* Values                                                                  *)
(***************************************************************************)
Undefined == "undefined"
NoToken == "notoken"
ITA == "IT Assessment"

\* hoursDifference <= 48 (line 224)
Window == 48

\* rateLimit({ windowMs: 60 * 60 * 1000, max: 10 }) (lines 41-45): the window
\* is one hour, which is two half hours
windowMs == 2
max == 10

\* ---- bounds of the model ----
MaxNow == 72
MaxArrivals == 3
MaxMissing == 1
\* requests of one burst and half hours it spans
MaxBurst == 12
MaxHalf == 3
\* length of the JSON texts generateAssessment is applied to
MaxText == 4

\* The clock advances in steps of a day: ages 0, 24, 48 and 72 hours occur.
TickSteps == {24}

Slots == {1, 2}
Emails == {"e1", "e2"}
Tokens == {"t1", "t2"}
LeadMagnets == {ITA, "Checklist"}
\* line 197
requiredFields == {"name", "email", "company", "company_size", "it_challenge", "consent"}

(***************************************************************************)
(* String helpers of generateAssessment (lines 132-156)                     *)
(***************************************************************************)
IsWs(c) == c = " "

\* String.prototype.slice(from, -back)
Slice(s, from, back) ==
  LET end == IF Len(s) - back < 0 THEN 0 ELSE Len(s) - back
  IN  IF from >= end THEN << >> ELSE SubSeq(s, from + 1, end)

StartsWith(s, p) == Len(s) >= Len(p) /\ SubSeq(s, 1, Len(p)) = p

EndsWith(s, p) == Len(s) >= Len(p) /\ SubSeq(s, Len(s) - Len(p) + 1, Len(s)) = p

\* String.prototype.trim
Trim(s) ==
  LET nonws == {i \in 1..Len(s) : ~IsWs(s[i])}
  IN  IF nonws = {} THEN << >>
      ELSE LET lo == CHOOSE i \in nonws : \A j \in nonws : i <= j
               hi == CHOOSE i \in nonws : \A j \in nonws : j <= i
           IN  SubSeq(s, lo, hi)

Fence == <<"#", "#", "#">>
FenceJson == <<"#", "#", "#", "j", "s", "o", "n">>

\* the fence stripped without the json branch of lines 137-138
StripFenceNoJson(rawContent) ==
  LET jsonString == Trim(rawContent)
  IN  IF StartsWith(jsonString, Fence) /\ EndsWith(jsonString, Fence)
        THEN Trim(Slice(jsonString, 3, 3))
      ELSE jsonString

\* lines 135-141
StripFence(rawContent) ==
  LET jsonString == Trim(rawContent)
  IN  IF StartsWith(jsonString, FenceJson) /\ EndsWith(jsonString, Fence)
        THEN Trim(Slice(jsonString, 7, 3))
      ELSE IF StartsWith(jsonString, Fence) /\ EndsWith(jsonString, Fence)
        THEN Trim(Slice(jsonString, 3, 3))
      ELSE jsonString

(***************************************************************************)
(* JSON.parse on the reduced alphabet                                      *)
(***************************************************************************)
Bad == [ok |-> FALSE, val |-> Undefined, next |-> 0]

Good(v, n) == [ok |-> TRUE, val |-> v, next |-> n]

\* a parsed value: its type t, its length n when an array, and, when an object,
\* the type st and length sn of its assessmentSections member
Val(t, n, st, sn) == [t |-> t, n |-> n, st |-> st, sn |-> sn]

\* first position >= i that holds no whitespace (Len(s)+1 when none)
SkipWs(s, i) ==
  LET rest == {j \in i..Len(s) : ~IsWs(s[j])}
  IN  IF rest = {} THEN Len(s) + 1 ELSE CHOOSE j \in rest : \A k \in rest : j <= k

RECURSIVE ParseValue(_, _)
RECURSIVE ParseElems(_, _, _)

\* the elements of an array after "[" (or after a ","); n elements read so far
ParseElems(s, i, n) ==
  LET v == ParseValue(s, i)
      k == SkipWs(s, v.next)
  IN  IF ~v.ok \/ k > Len(s) THEN Bad
      ELSE IF s[k] = "]" THEN Good(Val("arr", n + 1, Undefined, 0), k + 1)
      ELSE IF s[k] = "," THEN ParseElems(s, SkipWs(s, k + 1), n + 1)
      ELSE Bad

ParseValue(s, i) ==
  IF i > Len(s) THEN Bad
  ELSE IF s[i] = "1" THEN Good(Val("num", 0, Undefined, 0), i + 1)
  ELSE IF s[i] = "e" THEN Good(Val("obj", 0, Undefined, 0), i + 1)
  ELSE IF s[i] = "[" THEN
    LET j == SkipWs(s, i + 1)
    IN  IF j > Len(s) THEN Bad
        ELSE IF s[j] = "]" THEN Good(Val("arr", 0, Undefined, 0), j + 1)
        ELSE ParseElems(s, j, 0)
  ELSE IF s[i] = "{" THEN
    LET j == SkipWs(s, i + 1)
    IN  IF j > Len(s) THEN Bad
        ELSE IF s[j] = "}" THEN Good(Val("obj", 0, Undefined, 0), j + 1)
        ELSE IF s[j] = "a" THEN
          LET v == ParseValue(s, SkipWs(s, j + 1))
              k == SkipWs(s, v.next)
          IN  IF ~v.ok \/ k > Len(s) THEN Bad
              ELSE IF s[k] # "}" THEN Bad
              ELSE Good(Val("obj", 0, v.val.t, v.val.n), k + 1)
        ELSE Bad
  ELSE Bad

\* JSON.parse(text): ok is FALSE where it throws SyntaxError
JSONParse(s) ==
  LET v == ParseValue(s, SkipWs(s, 1))
  IN  IF v.ok /\ SkipWs(s, v.next) > Len(s) THEN [ok |-> TRUE, val |-> v.val]
      ELSE [ok |-> FALSE, val |-> Undefined]

\* rawContent.match(/{[\s\S]*}/): from the first "{" to the last "}" (line 151)
BraceMatch(rawContent) ==
  LET opens == {i \in 1..Len(rawContent) : rawContent[i] = "{"}
      lo == CHOOSE i \in opens : \A j \in opens : i <= j
      closes == {i \in 1..Len(rawContent) : rawContent[i] = "}" /\ i > lo}
      hi == CHOOSE i \in closes : \A j \in closes : j <= i
  IN  IF opens = {} \/ closes = {} THEN [found |-> FALSE, text |-> << >>]
      ELSE [found |-> TRUE, text |-> SubSeq(rawContent, lo, hi)]

\* a generateAssessment that falls back to an empty document instead of throwing
ParseCompletionLenient(rawContent) ==
  LET first == JSONParse(StripFence(rawContent))
      jsonMatch == BraceMatch(rawContent)
  IN  IF first.ok THEN first
      ELSE IF jsonMatch.found THEN JSONParse(jsonMatch.text)
      ELSE [ok |-> TRUE, val |-> Val("obj", 0, "arr", 0)]

\* generateAssessment after the completion API answered with rawContent
\* (lines 132-160): ok is FALSE where it throws
ParseCompletion(rawContent) ==
  LET first == JSONParse(StripFence(rawContent))
      jsonMatch == BraceMatch(rawContent)
  IN  IF first.ok THEN first
      ELSE IF jsonMatch.found THEN JSONParse(jsonMatch.text)
      ELSE [ok |-> FALSE, val |-> Undefined]

\* the answer the prompt asks for: an object with four sections
WellFormed == <<"{", "a", "[", "e", ",", "e", ",", "e", ",", "e", "]", "}">>

\* what the completion API may answer
RawContents ==
  { WellFormed,
    <<"#", "#", "#", "j", "s", "o", "n", " ", "{", "a", "[", "e", ",", "e", ",", "e", ",", "e", "]", "}", " ", "#", "#", "#">>,
    <<"p", " ", "{", "a", "[", "e", ",", "e", "]", "}", " ", "p">>,
    <<"{", "}">>,
    <<"1">>,
    <<"p", "p">>,
    <<"{", "a", "[", "e", ",">>,
    <<"p", "{", "p", "}">> }

(***************************************************************************)
(* State                                                                   *)
(***************************************************************************)
VARIABLES
  store,     \* the subscribers table: email -> [verification_token,
             \* lead_magnet_generated], the latter a map from lead magnet to
             \* the time of its generation
  now,       \* the wall clock, in hours
  req,       \* the request each slot is handling
  arrivals,  \* requests received so far
  last,      \* token -> the latest finished request that wrote its timestamp
  world,     \* "sequential": requests are handled one at a time;
             \* "overlapping": two requests of one subscriber are in flight;
             \* "limited": one client sends a burst through the rate limiter;
             \* "parsing": generateAssessment alone, on one completion
  half,      \* the wall clock, in half hours
  lim,       \* the rate limiter's entry of the client
  text       \* the completion generateAssessment is applied to, and its results

vars == <<store, now, req, arrivals, last, world, half, lim, text>>

NoLmg == [k \in {} |-> 0]

\* hoursDifference before line 223 ran
NotComputed == -1

NoVal == Val("none", 0, Undefined, 0)

Idle ==
  [pc |-> "idle", missing |-> {}, consent |-> TRUE, recaptcha |-> TRUE,
   honeypot |-> FALSE, email |-> "", verificationToken |-> NoToken,
   rowEmail |-> "", leadMagnetData |-> NoLmg,
   assessment |-> NoVal, rawLogged |-> << >>, pdfUrl |-> Undefined,
   hoursDifference |-> NotComputed, calls |-> << >>, status |-> 0, msg |-> "",
   responses |-> 0,
   since |-> FALSE, raced |-> FALSE]

\* request bodies: at most MaxMissing faults among the validated fields
Bodies ==
  { b \in [missing : SUBSET requiredFields, consent : BOOLEAN, recaptcha : BOOLEAN,
            honeypot : BOOLEAN, email : Emails, verificationToken : Tokens \cup {NoToken}] :
      Cardinality(b.missing) + (IF b.consent THEN 0 ELSE 1)
        + (IF b.recaptcha THEN 0 ELSE 1) <= MaxMissing }

\* the chain without equals('true') on consent
ValidationErrorsNoEquals(b) ==
  b.missing \cup (IF b.recaptcha THEN {} ELSE {"recaptchaToken"})

\* the express-validator chain (lines 164-172): the validators that fail
ValidationErrors(b) ==
  (b.missing \ {"consent"})
    \cup (IF "consent" \in b.missing \/ ~b.consent THEN {"consent"} ELSE {})
    \cup (IF b.recaptcha THEN {} ELSE {"recaptchaToken"})

\* requiredFields.filter(field => !formData[field]) (line 198)
MissingFields(q) ==
  q.missing \cup (IF q.consent THEN {} ELSE {"consent"})

\* return res.status(status).json(...): a response is sent and the handler is left
Respond(q, status, msg) ==
  [q EXCEPT !.pc = "done", !.status = status, !.msg = msg, !.responses = @ + 1]

\* an outbound call is issued
Call(q, name) ==
  [q EXCEPT !.pc = name, !.calls = Append(@, [name |-> name, result |-> "pending"])]

\* the pending call returned
Returned(q, result) == [q EXCEPT !.calls[Len(q.calls)].result = result]

\* a catch that reports which call failed
CaughtNamed(q) == Respond(Returned(q, "fail"), 500, q.calls[Len(q.calls)].name)

\* catch (error) { res.status(500)... } (lines 311-314)
Caught(q) == Respond(Returned(q, "fail"), 500, "failed")

Called(q, name) == \E i \in 1..Len(q.calls) : q.calls[i].name = name

CallNames(q) == [i \in 1..Len(q.calls) |-> q.calls[i].name]

\* the slots in use and the bodies clients send
ActiveSlots == IF world = "overlapping" THEN Slots ELSE {1}

ClientBodies ==
  IF world = "sequential" THEN Bodies
  ELSE IF world = "limited"
    THEN {b \in Bodies : b.missing \in {{}, {"name"}} /\ b.consent /\ b.recaptcha
                          /\ ~b.honeypot
                          /\ b.verificationToken = "t1" /\ b.email = "e1"}
  ELSE {b \in Bodies : ValidationErrors(b) = {} /\ ~b.honeypot
                        /\ b.verificationToken = "t1" /\ b.email = "e1"}

Completions == IF world = "sequential" THEN RawContents ELSE {WellFormed}

\* the limiter has no entry for the client
NoHits == [totalHits |-> 0, resetTime |-> 0, admitted |-> [t \in 0..MaxHalf |-> 0]]

\* generateAssessment is not under study
NoText == [pc |-> "none", J |-> << >>, rawContent |-> << >>,
           unwrapped |-> [ok |-> FALSE, val |-> NoVal],
           fenced |-> [ok |-> FALSE, val |-> NoVal]]

\* the subscribers table before the first request: one row per subscriber,
\* each with its own token and no "IT Assessment" entry
Stores ==
  { [e \in {"e1"} |-> [verification_token |-> "t1", lead_magnet_generated |-> NoLmg]],
    [e \in {"e1"} |-> [verification_token |-> "t1",
                       lead_magnet_generated |-> [k \in {"Checklist"} |-> 0]]],
    [e \in Emails |-> [verification_token |-> IF e = "e1" THEN "t1" ELSE "t2",
                       lead_magnet_generated |-> NoLmg]] }

Start ==
  /\ store \in Stores
  /\ now = 0
  /\ req = [r \in Slots |-> Idle]
  /\ arrivals = 0
  /\ last = [t \in {} |-> 0]
  /\ half = 0
  /\ lim = NoHits
  /\ text = NoText

Init == Start /\ world = "sequential"

InitRace == Start /\ world = "overlapping"

\* the handler without the honeypot test of line 183
AdmitNoHoneypot(q, b, known) ==
  LET v == [q EXCEPT !.missing = b.missing, !.consent = b.consent,
                     !.recaptcha = b.recaptcha, !.honeypot = b.honeypot]
      w == [v EXCEPT !.email = b.email, !.verificationToken = b.verificationToken,
                     !.since = known]
  IN  IF ValidationErrors(b) # {} THEN Respond(v, 400, "errors")
      ELSE Call(w, "captcha")

\* lines 175-190: validation, honeypot, then the reCAPTCHA call is issued
Admit(q, b, known) ==
  LET v == [q EXCEPT !.missing = b.missing, !.consent = b.consent,
                     !.recaptcha = b.recaptcha, !.honeypot = b.honeypot]
      w == [v EXCEPT !.email = b.email, !.verificationToken = b.verificationToken,
                     !.since = known]
  IN  IF ValidationErrors(b) # {} THEN Respond(v, 400, "errors")
      ELSE IF b.honeypot THEN Respond(w, 403, "bot")
      ELSE Call(w, "captcha")

\* the handler without the success test of line 192
AfterCaptchaUnchecked(q, success) ==
  LET v == Returned(q, IF success THEN "ok" ELSE "false")
  IN  IF MissingFields(q) # {} \/ q.verificationToken = NoToken
        THEN Respond(v, 400, "missing")
      ELSE Call(v, "select")

\* the handler without the verificationToken test of line 199
AfterCaptchaNoTokenTest(q, success) ==
  IF ~success THEN Respond(Returned(q, "false"), 403, "bot-retry")
  ELSE IF MissingFields(q) # {} THEN Respond(Returned(q, "ok"), 400, "missing")
  ELSE IF ~q.consent THEN Respond(Returned(q, "ok"), 400, "consent")
  ELSE Call(Returned(q, "ok"), "select")

\* lines 191-210: the reCAPTCHA verdict, the required-field check, then the
\* subscriber lookup is issued
AfterCaptcha(q, success) ==
  IF ~success THEN Respond(Returned(q, "false"), 403, "bot-retry")
  ELSE IF MissingFields(q) # {} \/ q.verificationToken = NoToken
    THEN Respond(Returned(q, "ok"), 400, "missing")
  ELSE IF ~q.consent THEN Respond(Returned(q, "ok"), 400, "consent")
  ELSE Call(Returned(q, "ok"), "select")

\* (now - lastGeneratedTime) / (1000 * 60 * 60) (lines 220-223)
HoursDifference(leadMagnetData, t) ==
  IF ITA \in DOMAIN leadMagnetData THEN t - leadMagnetData[ITA] ELSE NotComputed

\* the comparison of line 224 reversed
ThrottledReversed(leadMagnetData, t) ==
  ITA \in DOMAIN leadMagnetData /\ HoursDifference(leadMagnetData, t) > Window

\* the comparison of line 224 made strict
ThrottledStrict(leadMagnetData, t) ==
  ITA \in DOMAIN leadMagnetData /\ HoursDifference(leadMagnetData, t) < Window

\* lines 220-224: a timestamp is stored and is at most 48 hours old
Throttled(leadMagnetData, t) ==
  ITA \in DOMAIN leadMagnetData /\ HoursDifference(leadMagnetData, t) <= Window

\* a handler whose "already generated" response is sent without return, so
\* that it goes on to the completion API
AfterSelectNoReturn(q, leadMagnetData, t) ==
  LET v == [Returned(q, "ok") EXCEPT
              !.leadMagnetData = leadMagnetData,
              !.hoursDifference = HoursDifference(leadMagnetData, t)]
  IN  IF Throttled(leadMagnetData, t) THEN Call(Respond(v, 200, "already"), "completion")
      ELSE Call(v, "completion")

\* lines 217-230: the 48-hour check on the record read, then the completion
\* API call is issued
AfterSelect(q, leadMagnetData, t) ==
  LET v == [Returned(q, "ok") EXCEPT
              !.leadMagnetData = leadMagnetData,
              !.hoursDifference = HoursDifference(leadMagnetData, t)]
  IN  IF Throttled(leadMagnetData, t) THEN Respond(v, 200, "already")
      ELSE Call(v, "completion")

\* leadMagnetData['IT Assessment'] = nowISO (line 235)
Stamp(leadMagnetData, t) ==
  [k \in DOMAIN leadMagnetData \cup {ITA} |-> IF k = ITA THEN t ELSE leadMagnetData[k]]

\* a generateAssessment whose catch swallows the parse error, so that the
\* handler goes on to the upsert without an assessment
AfterCompletionSwallowed(q, rawContent, t) ==
  LET parsed == ParseCompletion(rawContent)
      logged == IF JSONParse(StripFence(rawContent)).ok THEN << >> ELSE rawContent
      v == [q EXCEPT !.rawLogged = logged]
  IN  Call([Returned(v, "ok") EXCEPT
              !.assessment = IF parsed.ok THEN parsed.val ELSE NoVal,
              !.leadMagnetData = Stamp(q.leadMagnetData, t)], "upsert")

\* lines 132-160 and 230-241: the completion is parsed, the timestamp is set
\* and the upsert is issued
AfterCompletion(q, rawContent, t) ==
  LET parsed == ParseCompletion(rawContent)
      logged == IF JSONParse(StripFence(rawContent)).ok THEN << >> ELSE rawContent
      v == [q EXCEPT !.rawLogged = logged]
  IN  IF ~parsed.ok THEN Caught(v)
      ELSE Call([Returned(v, "ok") EXCEPT
                   !.assessment = parsed.val,
                   !.leadMagnetData = Stamp(q.leadMagnetData, t)], "upsert")

\* upsert({email, verification_token, lead_magnet_generated}, {onConflict:
\* 'email'}) (lines 236-241)
Upsert(table, q) ==
  [e \in DOMAIN table \cup {q.email} |->
     IF e = q.email
       THEN [verification_token |-> q.verificationToken,
             lead_magnet_generated |-> q.leadMagnetData]
     ELSE table[e]]

\* assessment.assessmentSections[i] (lines 260-263) throws TypeError when
\* assessmentSections is undefined
PayloadThrows(a) == a.st = Undefined

\* how many of the four payload sections are defined
PayloadSections(a) == IF a.st # "arr" THEN 0 ELSE IF a.sn > 4 THEN 4 ELSE a.sn

\* lines 242-274: the render job is built and submitted
AfterUpsert(q) ==
  IF PayloadThrows(q.assessment) THEN Respond(Returned(q, "ok"), 500, "failed")
  ELSE Call(Returned(q, "ok"), "render")

\* the handler mailing right after the job was created, without fetching it
AfterRenderNoFetch(q) == Call(Returned(q, "ok"), "mail")

\* lines 276-279: the job id is read and the fixed wait starts
AfterRender(q) == [Returned(q, "ok") EXCEPT !.pc = "delay"]

\* lines 279-289: the wait is over and the job is fetched
AfterDelay(q) == Call(q, "fetch")

\* a handler that fails the request when the fetched job holds no download URL
AfterFetchChecked(q, pdfUrl) ==
  IF pdfUrl = Undefined THEN Respond(Returned(q, "ok"), 500, "failed")
  ELSE Call([Returned(q, "ok") EXCEPT !.pdfUrl = pdfUrl], "mail")

\* lines 292-305: the download URL is read, unchecked, and the email is sent
AfterFetch(q, pdfUrl) == Call([Returned(q, "ok") EXCEPT !.pdfUrl = pdfUrl], "mail")

\* lines 307-310
AfterMail(q) == Respond(Returned(q, "ok"), 200, "success")

Arrive(r) ==
  /\ req[r].pc = "idle"
  /\ arrivals < MaxArrivals
  /\ arrivals' = arrivals + 1
  /\ \E b \in ClientBodies :
       req' = [req EXCEPT ![r] = Admit(req[r], b, b.verificationToken \in DOMAIN last)]
  /\ UNCHANGED <<store, now, last, world, half, lim, text>>

\* the reCAPTCHA call returns, or throws
CaptchaReturn(r) ==
  /\ req[r].pc = "captcha"
  /\ \E outcome \in {"throw", "false", "true"} :
       req' = [req EXCEPT ![r] =
                 IF outcome = "throw" THEN Caught(req[r])
                 ELSE AfterCaptcha(req[r], outcome = "true")]
  /\ UNCHANGED <<store, now, arrivals, last, world, half, lim, text>>

\* select('lead_magnet_generated, email').eq('verification_token', ...)
\* returns: leadMagnets[0] is any of the matching rows, the query states no
\* order; rowEmail is leadMagnets?.[0]?.email of line 217, "" when no row matched
SelectReturn(r) ==
  /\ req[r].pc = "select"
  /\ LET rows == {e \in DOMAIN store : store[e].verification_token = req[r].verificationToken}
     IN  \E ok \in BOOLEAN, first \in (IF rows = {} THEN {""} ELSE rows) :
           req' = [req EXCEPT ![r] =
                     IF ~ok THEN Caught(req[r])
                     ELSE [AfterSelect(req[r],
                                       IF rows = {} THEN NoLmg
                                       ELSE store[first].lead_magnet_generated,
                                       now)
                             EXCEPT !.rowEmail = first]]
  /\ UNCHANGED <<store, now, arrivals, last, world, half, lim, text>>

\* the completion API answers, or fails
CompletionReturn(r) ==
  /\ req[r].pc = "completion"
  /\ \E ok \in BOOLEAN, rawContent \in Completions :
       req' = [req EXCEPT ![r] =
                 IF ~ok THEN Caught(req[r])
                 ELSE AfterCompletion(req[r], rawContent, now)]
  /\ UNCHANGED <<store, now, arrivals, last, world, half, lim, text>>

\* requests of the same token that passed the 48-hour check and have not
\* written yet, while r writes
Racing(r) ==
  {p \in Slots \ {r} : req[p].verificationToken = req[r].verificationToken
                        /\ req[p].pc \in {"completion", "upsert"}}

\* an upsert that writes only if the row holds no timestamp of the last 48
\* hours, and answers "already generated" otherwise
UpsertReturnGuarded(r) ==
  /\ req[r].pc = "upsert"
  /\ \E ok \in BOOLEAN :
       IF ~ok
         THEN /\ req' = [req EXCEPT ![r] = Caught(req[r])]
              /\ UNCHANGED store
         ELSE IF /\ req[r].email \in DOMAIN store
                 /\ Throttled(store[req[r].email].lead_magnet_generated, now)
           THEN /\ req' = [req EXCEPT ![r] = Respond(Returned(req[r], "ok"), 200, "already")]
                /\ UNCHANGED store
         ELSE /\ store' = Upsert(store, req[r])
              /\ req' = [p \in Slots |->
                           IF p = r
                             THEN [AfterUpsert(req[r]) EXCEPT !.raced = @ \/ Racing(r) # {}]
                           ELSE IF p \in Racing(r) THEN [req[p] EXCEPT !.raced = TRUE]
                           ELSE req[p]]
  /\ UNCHANGED <<now, arrivals, last, world, half, lim, text>>

\* the upsert returns: on success the row of formData.email is replaced
UpsertReturn(r) ==
  /\ req[r].pc = "upsert"
  /\ \E ok \in BOOLEAN :
       IF ~ok
         THEN /\ req' = [req EXCEPT ![r] = Caught(req[r])]
              /\ UNCHANGED store
         ELSE /\ store' = Upsert(store, req[r])
              /\ req' = [p \in Slots |->
                           IF p = r
                             THEN [AfterUpsert(req[r]) EXCEPT !.raced = @ \/ Racing(r) # {}]
                           ELSE IF p \in Racing(r) THEN [req[p] EXCEPT !.raced = TRUE]
                           ELSE req[p]]
  /\ UNCHANGED <<now, arrivals, last, world, half, lim, text>>

RenderReturn(r) ==
  /\ req[r].pc = "render"
  /\ \E ok \in BOOLEAN :
       req' = [req EXCEPT ![r] = IF ok THEN AfterRender(req[r]) ELSE Caught(req[r])]
  /\ UNCHANGED <<store, now, arrivals, last, world, half, lim, text>>

DelayElapsed(r) ==
  /\ req[r].pc = "delay"
  /\ req' = [req EXCEPT ![r] = AfterDelay(req[r])]
  /\ UNCHANGED <<store, now, arrivals, last, world, half, lim, text>>

\* the job is fetched: its download_url is set when the render has finished
FetchReturn(r) ==
  /\ req[r].pc = "fetch"
  /\ \E outcome \in {"throw", Undefined, "url"} :
       req' = [req EXCEPT ![r] =
                 IF outcome = "throw" THEN Caught(req[r])
                 ELSE AfterFetch(req[r], outcome)]
  /\ UNCHANGED <<store, now, arrivals, last, world, half, lim, text>>

MailReturn(r) ==
  /\ req[r].pc = "mail"
  /\ \E ok \in BOOLEAN :
       req' = [req EXCEPT ![r] = IF ok THEN AfterMail(req[r]) ELSE Caught(req[r])]
  /\ UNCHANGED <<store, now, arrivals, last, world, half, lim, text>>

\* the call of q that failed, "" when none did
FailedCall(q) ==
  IF \E i \in 1..Len(q.calls) : q.calls[i].result = "fail"
    THEN q.calls[CHOOSE i \in 1..Len(q.calls) : q.calls[i].result = "fail"].name
  ELSE ""

\* the upsert of q succeeded
Wrote(q) == \E i \in 1..Len(q.calls) : q.calls[i] = [name |-> "upsert", result |-> "ok"]

\* the response is sent and the slot is free again
Finish(r) ==
  /\ req[r].pc = "done"
  /\ IF Wrote(req[r])
       THEN /\ last' = [t \in DOMAIN last \cup {req[r].verificationToken} |->
                          IF t = req[r].verificationToken
                            THEN [at |-> req[r].leadMagnetData[ITA], email |-> req[r].email,
                                  undelivered |->
                                    FailedCall(req[r]) \in {"render", "fetch", "mail"}]
                          ELSE last[t]]
            /\ req' = [p \in Slots |->
                         IF p = r THEN Idle
                         ELSE IF req[p].verificationToken = req[r].verificationToken
                           THEN [req[p] EXCEPT !.since = FALSE]
                         ELSE req[p]]
       ELSE /\ req' = [req EXCEPT ![r] = Idle]
            /\ UNCHANGED last
  /\ UNCHANGED <<store, now, arrivals, world, half, lim, text>>

Tick ==
  /\ \E d \in TickSteps : now + d <= MaxNow /\ now' = now + d /\ half' = half + windowMs * d
  /\ UNCHANGED <<store, req, arrivals, last, world, lim, text>>

Next ==
  \/ \E r \in ActiveSlots : Arrive(r)
  \/ \E r \in ActiveSlots : CaptchaReturn(r)
  \/ \E r \in ActiveSlots : SelectReturn(r)
  \/ \E r \in ActiveSlots : CompletionReturn(r)
  \/ \E r \in ActiveSlots : UpsertReturn(r)
  \/ \E r \in ActiveSlots : RenderReturn(r)
  \/ \E r \in ActiveSlots : DelayElapsed(r)
  \/ \E r \in ActiveSlots : FetchReturn(r)
  \/ \E r \in ActiveSlots : MailReturn(r)
  \/ \E r \in ActiveSlots : Finish(r)
  \/ Tick

Spec == Init /\ [][Next]_vars

SpecRace == InitRace /\ [][Next]_vars

\* every outbound call eventually returns or fails, and the timer of line 279
\* fires
CallsReturn ==
  /\ WF_vars(\E r \in ActiveSlots : CaptchaReturn(r))
  /\ WF_vars(\E r \in ActiveSlots : SelectReturn(r))
  /\ WF_vars(\E r \in ActiveSlots : CompletionReturn(r))
  /\ WF_vars(\E r \in ActiveSlots : UpsertReturn(r))
  /\ WF_vars(\E r \in ActiveSlots : RenderReturn(r))
  /\ WF_vars(\E r \in ActiveSlots : DelayElapsed(r))
  /\ WF_vars(\E r \in ActiveSlots : FetchReturn(r))
  /\ WF_vars(\E r \in ActiveSlots : MailReturn(r))

SpecLive == Init /\ [][Next]_vars /\ CallsReturn

(***************************************************************************)
(* The rate limiter of lines 41-45 in front of the handler.  In Spec,      *)
(* SpecRace and SpecLive fewer than max requests arrive, all of which the  *)
(* limiter lets through.                                                   *)
(***************************************************************************)
\* the limiter counts a request at time t: the client's window opens at its
\* first request and is reset windowMs later
Increment(entry, t) ==
  IF entry.resetTime <= t
    THEN [entry EXCEPT !.totalHits = 1, !.resetTime = t + windowMs]
  ELSE [entry EXCEPT !.totalHits = @ + 1]

\* a limiter that lets one more request through
LimiterRejectsLate(entry) == entry.totalHits > max + 1

\* the request is answered 429 once the window's count exceeds max
LimiterRejects(entry) == entry.totalHits > max

InitLimit ==
  /\ store \in {st \in Stores : DOMAIN st = {"e1"}}
  /\ now = 0
  /\ req = [r \in Slots |-> Idle]
  /\ arrivals = 0
  /\ last = [t \in {} |-> 0]
  /\ half = 0
  /\ lim = NoHits
  /\ world = "limited"
  /\ text = NoText

\* app.use('/api/generate-assessment', limiter) (line 45), then the handler
LimitedArrive(r) ==
  /\ req[r].pc = "idle"
  /\ arrivals < MaxBurst
  /\ arrivals' = arrivals + 1
  /\ LET entry == Increment(lim, half)
     IN  IF LimiterRejects(entry)
           THEN /\ lim' = entry
                /\ req' = [req EXCEPT ![r] = Respond(req[r], 429, "limited")]
           ELSE /\ lim' = [entry EXCEPT !.admitted[half] = @ + 1]
                /\ \E b \in ClientBodies :
                     req' = [req EXCEPT ![r] =
                               Admit(req[r], b, b.verificationToken \in DOMAIN last)]
  /\ UNCHANGED <<store, now, last, world, half, text>>

\* half an hour passes
HalfHour ==
  /\ half < MaxHalf
  /\ half' = half + 1
  /\ now' = (half + 1) \div windowMs
  /\ UNCHANGED <<store, req, arrivals, last, world, lim, text>>

NextLimit ==
  \/ \E r \in ActiveSlots : LimitedArrive(r)
  \/ \E r \in ActiveSlots : CaptchaReturn(r)
  \/ \E r \in ActiveSlots : SelectReturn(r)
  \/ \E r \in ActiveSlots : CompletionReturn(r)
  \/ \E r \in ActiveSlots : UpsertReturn(r)
  \/ \E r \in ActiveSlots : RenderReturn(r)
  \/ \E r \in ActiveSlots : DelayElapsed(r)
  \/ \E r \in ActiveSlots : FetchReturn(r)
  \/ \E r \in ActiveSlots : MailReturn(r)
  \/ \E r \in ActiveSlots : Finish(r)
  \/ HalfHour

SpecLimit == InitLimit /\ [][NextLimit]_vars

(***************************************************************************)
(* generateAssessment alone: a JSON text is returned by the completion API *)
(* once as it is and once in a fenced code block                           *)
(***************************************************************************)
Lexemes == {"{", "}", "[", "]", ",", "a", "e", "1", " "}

\* the JSON texts of at most MaxText lexemes, and the answer the prompt asks for
JsonTexts ==
  {J \in UNION {[1..n -> Lexemes] : n \in 0..MaxText} : JSONParse(J).ok}
    \cup {WellFormed}

\* whitespace around the fences: none, or some
Pads == {<< >>, <<" ">>}

\* J in a fenced code block, opened by fence
Fenced(fence, J, before, inL, inR, after) ==
  before \o fence \o inL \o J \o inR \o Fence \o after

\* what generateAssessment returns for rawContent (lines 132-160); ok is FALSE
\* where it throws
Generated(rawContent) ==
  LET parsed == ParseCompletion(rawContent)
  IN  IF parsed.ok THEN parsed ELSE [ok |-> FALSE, val |-> NoVal]

InitParse ==
  /\ store \in {st \in Stores : DOMAIN st = {"e1"}}
  /\ now = 0
  /\ req = [r \in Slots |-> Idle]
  /\ arrivals = 0
  /\ last = [t \in {} |-> 0]
  /\ half = 0
  /\ lim = NoHits
  /\ world = "parsing"
  /\ text \in {[NoText EXCEPT !.pc = "given", !.J = J] : J \in JsonTexts}

\* the completion API returns J as it is
ReturnsUnwrapped ==
  /\ text.pc = "given"
  /\ text' = [text EXCEPT !.pc = "unwrapped", !.unwrapped = Generated(text.J)]
  /\ UNCHANGED <<store, now, req, arrivals, last, world, half, lim>>

\* the completion API returns J in a fenced code block
ReturnsFenced ==
  /\ text.pc = "unwrapped"
  /\ \E fence \in {Fence, FenceJson}, before \in Pads, inL \in Pads, inR \in Pads,
         after \in Pads :
       LET rawContent == Fenced(fence, text.J, before, inL, inR, after)
       IN  text' = [text EXCEPT !.pc = "both", !.rawContent = rawContent,
                                !.fenced = Generated(rawContent)]
  /\ UNCHANGED <<store, now, req, arrivals, last, world, half, lim>>

NextParse == ReturnsUnwrapped \/ ReturnsFenced

SpecParse == InitParse /\ [][NextParse]_vars

(***************************************************************************)
(* Properties                                                              *)
(***************************************************************************)
Pipeline == <<"captcha", "select", "completion", "upsert", "render", "fetch", "mail">>

IsPrefix(a, b) == Len(a) <= Len(b) /\ SubSeq(b, 1, Len(a)) = a

AllOk(q) == \A i \in 1..Len(q.calls) : q.calls[i].result = "ok"

\* the subscriber lookup of q returned without error
ReadOk(q) == Len(q.calls) >= 2 /\ q.calls[2] = [name |-> "select", result |-> "ok"]

\* a finished request of the same token wrote the timestamp before r arrived,
\* no request of that token finished since, and the write is at most 48 hours old
AfterRecentWrite(r) ==
  /\ req[r].since
  /\ req[r].verificationToken \in DOMAIN last
  /\ now - last[req[r].verificationToken].at <= Window

\* C1: once a request carrying verification_token T has written the timestamp,
\* no later, non-overlapping request carrying T whose 48-hour check runs within
\* 48 hours of that write goes on to call the completion API, whatever email
\* either request carries.
C1_OneGenerationPerWindow ==
  [][\A r \in Slots :
       (req[r].pc = "select" /\ AfterRecentWrite(r)) => req'[r].pc # "completion"]_vars

\* C2: the calls of a request are always a prefix of captcha, select,
\* completion, upsert, render, fetch, mail (each at most once, in this order);
\* the success response is sent only after all seven returned; and a request
\* whose lookup returned no timestamp, or one older than 48 hours, all of whose
\* calls succeeded and whose completion carries assessmentSections, has made
\* all seven and is answered 200 with the download URL.
C2_FreshRequestRunsPipelineOnce ==
  \A r \in Slots :
    LET q == req[r]
    IN  /\ IsPrefix(CallNames(q), Pipeline)
        /\ q.status # 0 => q.pc = "done"
        /\ q.msg = "success" => CallNames(q) = Pipeline /\ AllOk(q)
        /\ ( /\ q.pc = "done"
             /\ ReadOk(q)
             /\ (q.hoursDifference = NotComputed \/ q.hoursDifference > Window)
             /\ AllOk(q)
             /\ q.assessment.st # Undefined )
           => /\ CallNames(q) = Pipeline
              /\ q.status = 200
              /\ q.msg = "success"
              /\ q.pdfUrl \in {"url", Undefined}
              /\ q.email \in DOMAIN store
              /\ store[q.email] = [verification_token |-> q.verificationToken,
                                   lead_magnet_generated |-> q.leadMagnetData]
              /\ ITA \in DOMAIN q.leadMagnetData

C2_Witness ==
  \E r \in Slots :
    /\ req[r].msg = "success"
    /\ req[r].hoursDifference > Window
    /\ CallNames(req[r]) = Pipeline

\* C3: a request whose lookup returned a timestamp less than 48 hours old is
\* answered 200 "already generated" at once: its only calls are the CAPTCHA
\* verification and the lookup, so it calls neither the completion API, the
\* render service nor the mail relay, and issues no upsert.
C3_ThrottledRequestStops ==
  \A r \in Slots :
    LET q == req[r]
    IN  (ReadOk(q) /\ q.hoursDifference # NotComputed /\ q.hoursDifference < Window)
          => /\ q.pc = "done"
             /\ q.status = 200
             /\ q.msg = "already"
             /\ CallNames(q) = <<"captcha", "select">>

C3_Witness ==
  \E r \in Slots :
    /\ req[r].msg = "already"
    /\ req[r].hoursDifference = 24
    /\ ITA \in DOMAIN req[r].leadMagnetData

\* C4: a submission with a required field missing, or with consent false, is
\* answered 400 and makes no call at all.
C4_InvalidSubmissionRejected ==
  \A r \in Slots :
    LET q == req[r]
    IN  (q.missing # {} \/ ~q.consent)
          => /\ q.pc = "done"
             /\ q.status = 400
             /\ q.calls = << >>

C4_Witness ==
  \E r \in Slots :
    /\ ~req[r].consent
    /\ req[r].missing = {}
    /\ req[r].status = 400

C6_FailedCaptchaStops ==
  \A r \in Slots :
    LET q == req[r]
    IN  (Len(q.calls) >= 1 /\ q.calls[1].result = "false")
          => /\ q.pc = "done"
             /\ q.status = 403
             /\ q.msg = "bot-retry"
             /\ CallNames(q) = <<"captcha">>

C6_Witness ==
  \E r \in Slots :
    /\ req[r].calls = <<[name |-> "captcha", result |-> "false"]>>
    /\ req[r].status = 403

\* C7: a call that fails is the last call of its request, and the request is
\* answered 500 with the one generic message, whichever call it was.
C7_FailureAbortsWithGeneric500 ==
  \A r \in Slots :
    LET q == req[r]
    IN  \A i \in 1..Len(q.calls) :
          q.calls[i].result = "fail"
            => /\ i = Len(q.calls)
               /\ q.pc = "done"
               /\ q.status = 500
               /\ q.msg = "failed"

C7_Witness ==
  \E r \in Slots :
    /\ FailedCall(req[r]) = "fetch"
    /\ req[r].status = 500
    /\ CallNames(req[r]) = SubSeq(Pipeline, 1, 6)

\* r retries, with the same token and email, a finished request that wrote the
\* timestamp at most 48 hours ago and then failed to render, fetch or mail
RetryOfUndelivered(r) ==
  /\ AfterRecentWrite(r)
  /\ last[req[r].verificationToken].undelivered
  /\ last[req[r].verificationToken].email = req[r].email

\* C8: when render, fetch or mail fails after the upsert succeeded, the row
\* written keeps its timestamp, and a retry with the same token within 48
\* hours whose lookup succeeds is answered "already generated".
C8_RetryAfterFailedDeliveryThrottled ==
  [][\A r \in Slots :
       /\ ( /\ req[r].pc \in {"render", "fetch", "mail"}
            /\ FailedCall(req'[r]) \in {"render", "fetch", "mail"} )
          => /\ req[r].email \in DOMAIN store'
             /\ store'[req[r].email].lead_magnet_generated = req[r].leadMagnetData
       /\ ( /\ req[r].pc = "select"
            /\ RetryOfUndelivered(r)
            /\ ReadOk(req'[r]) )
          => req'[r].msg = "already"]_vars

\* C9: two requests of one token that each passed the 48-hour check before
\* the other wrote, none of whose calls failed and whose completions carry
\* assessmentSections, both run the whole
\* pipeline: each called the completion API, wrote the timestamp, submitted a
\* render job and sent an email, and each is answered 200 with success.
C9_RacingRequestsBothRegenerate ==
  \A r \in Slots :
    \A p \in Slots \ {r} :
      ( /\ req[r].raced /\ req[p].raced
        /\ req[r].verificationToken = req[p].verificationToken
        /\ req[r].pc = "done" /\ req[p].pc = "done"
        /\ AllOk(req[r]) /\ AllOk(req[p])
        /\ req[r].assessment.st # Undefined /\ req[p].assessment.st # Undefined )
      => /\ CallNames(req[r]) = Pipeline
         /\ CallNames(req[p]) = Pipeline
         /\ req[r].msg = "success"
         /\ req[p].msg = "success"

C9_Witness ==
  /\ req[1].raced /\ req[2].raced
  /\ req[1].verificationToken = req[2].verificationToken
  /\ req[1].msg = "success" /\ req[2].msg = "success"
  /\ CallNames(req[1]) = Pipeline /\ CallNames(req[2]) = Pipeline
  /\ req[1].hoursDifference = NotComputed /\ req[2].hoursDifference = NotComputed

\* C10: a request whose completion output failed JSON.parse and holds no
\* brace-delimited substring is answered 500, and issued neither an upsert, a
\* render job nor an email.
C10_UnparsableCompletionFails ==
  \A r \in Slots :
    LET q == req[r]
    IN  (q.rawLogged # << >> /\ ~BraceMatch(q.rawLogged).found)
          => /\ q.pc = "done"
             /\ q.status = 500
             /\ CallNames(q) = <<"captcha", "select", "completion">>

C10_Witness ==
  \E r \in Slots :
    /\ req[r].rawLogged = <<"p", "p">>
    /\ req[r].status = 500
    /\ FailedCall(req[r]) = "completion"

\* C13: every render job submitted carries all four sections (overview,
\* findings, recommendations, next steps) as defined values, also when the
\* completion's assessmentSections holds fewer than four entries.
C13_RenderJobCarriesFourSections ==
  \A r \in Slots :
    Called(req[r], "render") => PayloadSections(req[r].assessment) = 4

\* C14: the fetched job is not checked for completion: a request whose fetch
\* returned without a download URL goes on to send the email, exactly one,
\* with the undefined link, and once the email is sent it is answered 200
\* with the success message.
C14_UnfinishedJobStillMailed ==
  \A r \in Slots :
    LET q == req[r]
    IN  ( /\ Len(q.calls) >= 6
          /\ q.calls[6] = [name |-> "fetch", result |-> "ok"]
          /\ q.pdfUrl = Undefined )
        => /\ CallNames(q) = Pipeline
           /\ Cardinality({i \in 1..Len(q.calls) : q.calls[i].name = "mail"}) = 1
           /\ q.calls[7].result = "ok"
                => (q.pc = "done" /\ q.status = 200 /\ q.msg = "success")
           /\ q.calls[7].result = "pending" => q.pc = "mail"

C14_Witness ==
  \E r \in Slots :
    /\ CallNames(req[r]) = Pipeline
    /\ AllOk(req[r])
    /\ req[r].pdfUrl = Undefined
    /\ req[r].status = 200
    /\ req[r].msg = "success"

\* C15: when the lookup of a request returns, the request is answered "already
\* generated" if and only if the record read holds an "IT Assessment"
\* timestamp whose age (now minus the stored time) is at most 48 hours, exactly
\* 48 hours included; it goes on to the completion API if and only if the
\* timestamp is absent or its age exceeds 48 hours.
C15_ThrottleDecisionExact ==
  [][\A r \in Slots :
       (req[r].pc = "select" /\ ReadOk(req'[r]))
         => LET read == req'[r].leadMagnetData
                stored == ITA \in DOMAIN read
            IN  /\ (req'[r].pc = "done" /\ req'[r].status = 200 /\ req'[r].msg = "already")
                      <=> (stored /\ now - read[ITA] <= Window)
                /\ req'[r].pc = "completion"
                      <=> (~stored \/ now - read[ITA] > Window)
                /\ req'[r].leadMagnetData \in
                      {NoLmg} \cup {store[e].lead_magnet_generated : e \in DOMAIN store}]_vars

C15_Witness ==
  \E r \in Slots :
    /\ req[r].msg = "already"
    /\ req[r].hoursDifference = Window
    /\ req[r].status = 200

\* the completion output of q was logged as unparsable and its brace-delimited
\* part, if any, does not parse either
ParseFailed(q) == q.rawLogged # << >> /\ ~ParseCompletion(q.rawLogged).ok

\* C16: the step on which the completion API call fails, or on which its
\* output fails to parse, leaves the subscriber store as it was and ends the
\* request with 500 before any upsert: no timestamp is written, in the store
\* or in the record the request holds, so the failed attempt cannot throttle
\* a later request.
C16_FailedGenerationWritesNothing ==
  [][\A r \in Slots :
       ( /\ req[r].pc = "completion"
         /\ req'[r].pc # "completion"
         /\ (FailedCall(req'[r]) = "completion" \/ ParseFailed(req'[r])) )
       => /\ store' = store
          /\ req'[r].pc = "done"
          /\ req'[r].status = 500
          /\ ~Called(req'[r], "upsert")
          /\ req'[r].leadMagnetData = req[r].leadMagnetData]_vars

C16_Witness ==
  \E r \in Slots :
    /\ ParseFailed(req[r])
    /\ req[r].rawLogged = <<"p", "{", "p", "}">>
    /\ FailedCall(req[r]) = "completion"
    /\ req[r].status = 500
    /\ req[r].verificationToken \in {store[e].verification_token : e \in DOMAIN store}
    /\ \A e \in DOMAIN store : ITA \notin DOMAIN store[e].lead_magnet_generated

\* q passed field validation and the honeypot test and carries no
\* verificationToken
ValidWithoutToken(q) ==
  /\ q.pc # "idle"
  /\ q.missing = {} /\ q.consent /\ q.recaptcha /\ ~q.honeypot
  /\ q.verificationToken = NoToken

\* C18: a request that passes field validation and the Bot Gate but carries no
\* verificationToken first makes the CAPTCHA verification call, and once that
\* call reported success it is answered 400 with the CAPTCHA call as its only
\* call: it neither reads nor writes the subscriber store, calls the completion
\* API, submits a render job or sends an email.
C18_MissingTokenRejectedAfterCaptcha ==
  \A r \in Slots :
    LET q == req[r]
    IN  ValidWithoutToken(q)
          => /\ CallNames(q) = <<"captcha">>
             /\ q.calls[1].result = "pending" <=> q.pc = "captcha"
             /\ q.calls[1].result = "ok"
                  => (q.pc = "done" /\ q.status = 400 /\ q.msg = "missing")

C18_Witness ==
  \E r \in Slots :
    /\ ValidWithoutToken(req[r])
    /\ req[r].calls = <<[name |-> "captcha", result |-> "ok"]>>
    /\ req[r].status = 400

\* C17: a write of a request that read a record changes only that record, and
\* in it only the "IT Assessment" entry: its token and its other lead-magnet
\* entries, and every other subscriber's record, are as before the write.
C17_WriteChangesOnlyRecordRead ==
  [][\A r \in Slots :
       (req[r].pc = "upsert" /\ store' # store /\ req[r].rowEmail # "")
         => \A e \in DOMAIN store :
              /\ e \in DOMAIN store'
              /\ store'[e].verification_token = store[e].verification_token
              /\ \A k \in LeadMagnets \ {ITA} :
                   /\ k \in DOMAIN store'[e].lead_magnet_generated
                        <=> k \in DOMAIN store[e].lead_magnet_generated
                   /\ k \in DOMAIN store[e].lead_magnet_generated
                        => store'[e].lead_magnet_generated[k]
                             = store[e].lead_magnet_generated[k]
              /\ e # req[r].rowEmail => store'[e] = store[e]]_vars

\* C19: a request handled by the handler ends with exactly one response, with
\* status 200, 400, 403 or 500: while it is in flight no response was sent,
\* once it is done exactly one was, and, every call returning or failing,
\* every request in flight is eventually done.
C19_ExactlyOneResponse ==
  /\ [](\A r \in Slots :
          /\ req[r].responses = (IF req[r].pc = "done" THEN 1 ELSE 0)
          /\ req[r].pc = "done" <=> req[r].status \in {200, 400, 403, 500}
          /\ req[r].pc # "done" => req[r].status = 0)
  /\ \A r \in Slots : (req[r].pc # "idle") ~> (req[r].pc = "done")

C19_Witness ==
  \E r \in Slots :
    /\ req[r].pc = "done"
    /\ req[r].responses = 1
    /\ req[r].status = 500
    /\ CallNames(req[r]) = SubSeq(Pipeline, 1, 5)

\* C12: for every JSON text J, generateAssessment returns the same parsed
\* value for J in a fenced code block, opened by the bare fence or by the
\* fence with the word json, as for J itself.
C12_FencedParsedAsUnwrapped ==
  text.pc = "both"
    => /\ text.unwrapped.ok
       /\ text.unwrapped = [ok |-> TRUE, val |-> JSONParse(text.J).val]
       /\ text.fenced = text.unwrapped

C12_Witness ==
  /\ text.pc = "both"
  /\ text.J = <<"[", "e", "]">>
  /\ StartsWith(text.rawContent, FenceJson)
  /\ text.fenced = [ok |-> TRUE, val |-> Val("arr", 1, Undefined, 0)]

\* requests of the client let through at the half hours from..to
Admitted(from, to) ==
  LET RECURSIVE Sum(_)
      Sum(t) == IF t > to \/ t > MaxHalf THEN 0 ELSE lim.admitted[t] + Sum(t + 1)
  IN  Sum(IF from < 0 THEN 0 ELSE from)

\* C11 as stated: no client has more than 10 requests let through in any
\* rolling hour, that is in any two consecutive half hours.
C11_AtMostTenPerRollingHour ==
  \A t \in 0..MaxHalf : Admitted(t, t + windowMs - 1) <= max

\* C11: of the requests of one client counted in the limiter's current window,
\* which opens at the client's first request and is reset an hour later, the
\* first 10 are let through and every further one is answered 429 before
\* validation and before any call; no client has more than 10 requests let
\* through in one such window.
C11_AtMostTenPerLimiterWindow ==
  /\ lim.resetTime > half
       => Admitted(lim.resetTime - windowMs, lim.resetTime - 1)
            = (IF lim.totalHits > max THEN max ELSE lim.totalHits)
  /\ \A r \in Slots :
       req[r].status = 429
         => /\ lim.totalHits > max
            /\ req[r].calls = << >>
            /\ req[r].pc = "done"

C11_Witness ==
  \E r \in Slots :
    /\ req[r].status = 429
    /\ lim.totalHits = max + 1
    /\ Admitted(lim.resetTime - windowMs, lim.resetTime - 1) = max
====
